---- MODULE Spec2Model ----
(***************************************************************************)
(* Model of api.py: the FameEX REST connector.                             *)
(*                                                                         *)
(* Strings are sequences of characters (one-character TLA+ strings, and    *)
(* the atom "U+00E9" for one non-ASCII character), so that upper(), str(), *)
(* json.dumps, urlencode and encode('utf-8') are computed and not assumed. *)
(* A Python dict is the sequence of its (key, value) items in insertion    *)
(* order.  A value is a str or an int.  The time between a request and    *)
(* its answer is one step: a call of requests.get or requests.post is one  *)
(* outbound request, whatever the library does inside it.                  *)
(***************************************************************************)
EXTENDS Integers, Sequences, FiniteSets, TLC

\* ------------------------------------------------------------------ bounds

\* Number of caller threads that exist.
NumThreads == 2
\* Clock readings the model distinguishes inside one millisecond.
SubMs == 2
\* The millisecond at which the clock starts.
StartMs == 9
\* How many sub-millisecond ticks the clock may advance.
MaxTicks == 2

Threads == 1..NumThreads

\* ----------------------------------------------------------- Python values

None == [kind |-> "none", items |-> <<>>, s |-> <<>>]
Dict(items) == [kind |-> "dict", items |-> items, s |-> <<>>]
StrBody(s) == [kind |-> "str", items |-> <<>>, s |-> s]
StrVal(s) == [kind |-> "str", s |-> s, n |-> 0]
IntVal(n) == [kind |-> "int", s |-> <<>>, n |-> n]
Item(k, v) == [k |-> k, v |-> v]

\* Python truthiness of a body: None, {} and "" are falsy.
Truthy(body) ==
    CASE body.kind = "none" -> FALSE
      [] body.kind = "dict" -> Len(body.items) > 0
      [] body.kind = "str" -> Len(body.s) > 0

LowerCase ==
    <<"a", "b", "c", "d", "e", "f", "g", "h", "i", "j", "k", "l", "m",
      "n", "o", "p", "q", "r", "s", "t", "u", "v", "w", "x", "y", "z">>
UpperCase ==
    <<"A", "B", "C", "D", "E", "F", "G", "H", "I", "J", "K", "L", "M",
      "N", "O", "P", "Q", "R", "S", "T", "U", "V", "W", "X", "Y", "Z">>
Digits == <<"0", "1", "2", "3", "4", "5", "6", "7", "8", "9">>

IsIn(c, chars) == \E i \in 1..Len(chars) : chars[i] = c

UpperChar(c) ==
    IF IsIn(c, LowerCase)
    THEN <<UpperCase[CHOOSE i \in 1..Len(LowerCase) : LowerCase[i] = c]>>
    ELSE <<c>>

\* str.upper()
RECURSIVE Upper(_)
Upper(s) == IF s = <<>> THEN <<>> ELSE UpperChar(Head(s)) \o Upper(Tail(s))

\* str(n) of a Python int.
RECURSIVE StrNat(_)
StrNat(n) ==
    IF n < 10 THEN <<Digits[n + 1]>>
    ELSE StrNat(n \div 10) \o <<Digits[(n % 10) + 1]>>
Str(n) == IF n < 0 THEN <<"-">> \o StrNat(0 - n) ELSE StrNat(n)

\* str(v) of a dict value.
StrOf(v) == IF v.kind = "int" THEN Str(v.n) ELSE v.s

\* One character's UTF-8 bytes (a byte is written as the ASCII character it
\* encodes, or as its two hex digits).
Utf8Char(c) == IF c = "U+00E9" THEN <<"C3", "A9">> ELSE <<c>>
\* str.encode('utf-8')
RECURSIVE Utf8(_)
Utf8(s) == IF s = <<>> THEN <<>> ELSE Utf8Char(Head(s)) \o Utf8(Tail(s))

\* ----------------------------------------------------------- json.dumps

\* json.dumps of one character of a str, with the default ensure_ascii=True.
JsonEscape(c) ==
    CASE c = "\"" -> <<"\\", "\"">>
      [] c = "\\" -> <<"\\", "\\">>
      [] c = "U+00E9" -> <<"\\", "u", "0", "0", "e", "9">>
      [] OTHER -> <<c>>
RECURSIVE JsonEscaped(_)
JsonEscaped(s) ==
    IF s = <<>> THEN <<>> ELSE JsonEscape(Head(s)) \o JsonEscaped(Tail(s))
JsonStr(s) == <<"\"">> \o JsonEscaped(s) \o <<"\"">>
JsonValue(v) == IF v.kind = "int" THEN Str(v.n) ELSE JsonStr(v.s)
JsonItem(it) == JsonStr(it.k) \o <<":", " ">> \o JsonValue(it.v)
RECURSIVE JsonItems(_)
JsonItems(items) ==
    IF items = <<>> THEN <<>>
    ELSE IF Len(items) = 1 THEN JsonItem(items[1])
    ELSE JsonItem(Head(items)) \o <<",", " ">> \o JsonItems(Tail(items))
\* json.dumps(body) with the default separators (', ', ': ').
JsonDumps(body) ==
    CASE body.kind = "dict" -> <<"{">> \o JsonItems(body.items) \o <<"}">>
      [] body.kind = "str" -> JsonStr(body.s)
      [] body.kind = "none" -> <<"n", "u", "l", "l">>

\* ------------------------------------------------------ urllib urlencode

AlwaysSafe == <<"_", ".", "-", "~">>
\* quote_plus of one character.
QuotePlusChar(c) ==
    CASE IsIn(c, LowerCase) \/ IsIn(c, UpperCase) \/ IsIn(c, Digits)
           \/ IsIn(c, AlwaysSafe) -> <<c>>
      [] c = " " -> <<"+">>
      [] c = "," -> <<"%", "2", "C">>
      [] c = "&" -> <<"%", "2", "6">>
      [] c = "=" -> <<"%", "3", "D">>
      [] c = "?" -> <<"%", "3", "F">>
      [] c = "/" -> <<"%", "2", "F">>
      [] c = "\"" -> <<"%", "2", "2">>
      [] c = "U+00E9" -> <<"%", "C", "3", "%", "A", "9">>
RECURSIVE QuotePlus(_)
QuotePlus(s) ==
    IF s = <<>> THEN <<>> ELSE QuotePlusChar(Head(s)) \o QuotePlus(Tail(s))
QueryItem(it) == QuotePlus(it.k) \o <<"=">> \o QuotePlus(StrOf(it.v))
RECURSIVE QueryItems(_)
QueryItems(items) ==
    IF items = <<>> THEN <<>>
    ELSE IF Len(items) = 1 THEN QueryItem(items[1])
    ELSE QueryItem(Head(items)) \o <<"&">> \o QueryItems(Tail(items))
\* urlencode(body) of a dict.
UrlEncode(body) == QueryItems(body.items)

\* ------------------------------------------------------------ constants

BASE_URL ==
    <<"h", "t", "t", "p", "s", ":", "/", "/", "o", "p", "e", "n", "a", "p",
      "i", ".", "f", "a", "m", "e", "e", "x", ".", "n", "e", "t">>
CONTENT_TYPE ==
    <<"a", "p", "p", "l", "i", "c", "a", "t", "i", "o", "n", "/", "j", "s",
      "o", "n">>
GET == <<"G", "E", "T">>
POST == <<"P", "O", "S", "T">>
OrderPath ==
    <<"/", "s", "a", "p", "i", "/", "v", "1", "/", "o", "r", "d", "e", "r">>
CancelPath ==
    <<"/", "s", "a", "p", "i", "/", "v", "1", "/", "c", "a", "n", "c", "e",
      "l">>
OpenOrdersPath ==
    <<"/", "s", "a", "p", "i", "/", "v", "1", "/", "o", "p", "e", "n", "O",
      "r", "d", "e", "r", "s">>
AccountPath ==
    <<"/", "s", "a", "p", "i", "/", "v", "1", "/", "a", "c", "c", "o", "u",
      "n", "t">>
AccountBalancePath ==
    <<"/", "s", "a", "p", "i", "/", "v", "1", "/", "a", "c", "c", "o", "u",
      "n", "t", "/", "b", "a", "l", "a", "n", "c", "e">>
K_symbol == <<"s", "y", "m", "b", "o", "l">>
K_volume == <<"v", "o", "l", "u", "m", "e">>
K_side == <<"s", "i", "d", "e">>
K_type == <<"t", "y", "p", "e">>
K_price == <<"p", "r", "i", "c", "e">>
K_orderId == <<"o", "r", "d", "e", "r", "I", "d">>
K_order_id == <<"o", "r", "d", "e", "r", "_", "i", "d">>
K_limit == <<"l", "i", "m", "i", "t">>
K_symbols == <<"s", "y", "m", "b", "o", "l", "s">>

\* ---------------------------------------------------- SignatureGenerator

\* Mutant of Timestamp: the clock is read in whole seconds, int(time.time()).
TimestampInSeconds(now) == Str(now \div (SubMs * 1000))

\* str(int(time.time() * 1000)) when time.time() reads `now`, a count of
\* 1/SubMs milliseconds: int() drops the fraction of a millisecond.
Timestamp(now) == Str(now \div SubMs)

\* Mutant of SignPayload: the method is used as given, without upper().
SignPayloadRawMethod(timestamp, method, request_path, body) ==
    timestamp \o method \o request_path
      \o (IF Truthy(body) /\ method = POST
          THEN (IF body.kind = "dict" THEN JsonDumps(body) ELSE body.s)
          ELSE <<>>)

\* sign_payload of generate_signature.
SignPayload(timestamp, method, request_path, body) ==
    timestamp \o Upper(method) \o request_path
      \o (IF Truthy(body) /\ Upper(method) = POST
          THEN (IF body.kind = "dict" THEN JsonDumps(body) ELSE body.s)
          ELSE <<>>)

\* hmac.new(key, msg, hashlib.sha256).hexdigest(): the digest is kept as the
\* pair it was computed from, so that two digests are equal exactly when key
\* and message are (HMAC-SHA256 taken to be collision-free).
HmacSha256Hex(key, msg) == [key |-> key, msg |-> msg]

\* generate_signature, for a signer built with api_secret, reading `now`.
GenerateSignature(api_secret, now, method, request_path, body) ==
    [signature |->
         HmacSha256Hex(Utf8(api_secret),
                       Utf8(SignPayload(Timestamp(now), method,
                                        request_path, body))),
     timestamp |-> Timestamp(now)]

\* ----------------------------------------------------------- send_request

\* Mutant of RequestPath: the query string is not appended before signing.
RequestPathBare(method, request_path, body) == request_path

\* request_path after `if method == "GET" and body: request_path += ...`.
RequestPath(method, request_path, body) ==
    IF method = GET /\ Truthy(body)
    THEN request_path \o <<"?">> \o UrlEncode(body)
    ELSE request_path

\* urlencode raises TypeError for a non-empty str.
UrlEncodeRaises(method, body) ==
    method = GET /\ Truthy(body) /\ body.kind = "str"

Headers(api_key, signature_data) ==
    [h \in {"X-CH-APIKEY", "X-CH-TS", "X-CH-SIGN", "Content-Type"} |->
        CASE h = "X-CH-APIKEY" -> api_key
          [] h = "X-CH-TS" -> signature_data.timestamp
          [] h = "X-CH-SIGN" -> signature_data.signature
          [] h = "Content-Type" -> CONTENT_TYPE]

NoData == [present |-> FALSE, bytes |-> <<>>]
\* The body requests sends for json=body: nothing for None, and the UTF-8
\* bytes of json.dumps(body) for anything else.
JsonData(body) ==
    IF body.kind = "none" THEN NoData
    ELSE [present |-> TRUE, bytes |-> Utf8(JsonDumps(body))]

\* The verb send_request dispatches on: requests.post for "POST" exactly,
\* requests.get for every other method string.
Verb(method) == IF method = POST THEN POST ELSE GET

\* The HTTP request issued by requests.post / requests.get.
OutboundRequest(method, request_path, body, headers) ==
    [verb |-> Verb(method),
     url |-> BASE_URL \o request_path,
     headers |-> headers,
     data |-> IF method = POST THEN JsonData(body) ELSE NoData]

\* response.raise_for_status(): HTTPError for 4xx and 5xx only.
RaisesForStatus(status) == 400 <= status /\ status < 600

NoOutcome == [kind |-> "none", cause |-> "", value |-> "", key |-> <<>>]
Returned(value) ==
    [kind |-> "return", cause |-> "", value |-> value, key |-> <<>>]
Raised(kind, cause) ==
    [kind |-> kind, cause |-> cause, value |-> "", key |-> <<>>]

\* How send_request ends for a response (lines 97-108).  jsonErrorWrapped
\* says whether response.json() raises requests' own JSONDecodeError, a
\* RequestException (requests 2.27 and later), or lets the json module's
\* ValueError through (earlier versions): the source pins no version.
SendRequestOutcome(response, jsonErrorWrapped) ==
    CASE response.kind = "transport" ->
            Raised("FameexAPIException", response.cause)
      [] response.kind = "http" /\ RaisesForStatus(response.status) ->
            Raised("FameexAPIException", "HTTPError")
      [] response.kind = "http" /\ ~RaisesForStatus(response.status)
           /\ response.json # "invalid" ->
            Returned(response.json)
      [] response.kind = "http" /\ ~RaisesForStatus(response.status)
           /\ response.json = "invalid" ->
            IF jsonErrorWrapped
            THEN Raised("FameexAPIException", "JSONDecodeError")
            ELSE Raised("ValueError", "JSONDecodeError")

\* ------------------------------------------------ OrderManager, AssetManager

HasKey(d, k) == \E i \in 1..Len(d.items) : d.items[i].k = k
\* d[k]
Lookup(d, k) == d.items[CHOOSE i \in 1..Len(d.items) : d.items[i].k = k].v

\* The first of `keys` that d lacks: the key of the KeyError.
RECURSIVE MissingKey(_, _)
MissingKey(d, keys) ==
    IF keys = <<>> THEN <<>>
    ELSE IF ~HasKey(d, Head(keys)) THEN Head(keys)
    ELSE MissingKey(d, Tail(keys))

PlaceOrderKeys == <<K_symbol, K_volume, K_side, K_type, K_price>>
\* Mutant of PlaceOrderBody: the caller's dict is passed on as it came.
PlaceOrderBodyPassedThrough(order) == order
PlaceOrderBody(order) ==
    Dict(<<Item(K_symbol, Lookup(order, K_symbol)),
           Item(K_volume, Lookup(order, K_volume)),
           Item(K_side, Lookup(order, K_side)),
           Item(K_type, Lookup(order, K_type)),
           Item(K_price, Lookup(order, K_price))>>)

CancelOrderKeys == <<K_symbol, K_order_id>>
CancelOrderBody(order) ==
    Dict(<<Item(K_symbol, Lookup(order, K_symbol)),
           Item(K_orderId, Lookup(order, K_order_id))>>)

OpenOrdersKeys == <<K_symbol, K_limit>>
OpenOrdersBody(params) ==
    Dict(<<Item(K_symbol, Lookup(params, K_symbol)),
           Item(K_limit, Lookup(params, K_limit))>>)

BalanceBody == Dict(<<>>)

AccountBalanceKeys == <<K_symbols>>
AccountBalanceBody(params) ==
    Dict(<<Item(K_symbols, Lookup(params, K_symbols))>>)

\* ---------------------------------------------------------------- inputs

Credentials ==
    {[api_key |-> <<"k", "1">>, api_secret |-> <<"a", "b", "c">>],
     [api_key |-> <<"k", "2">>, api_secret |-> <<"s", "U+00E9">>]}

Methods ==
    {GET, POST, <<"g", "e", "t">>, <<"p", "o", "s", "t">>, <<"G", "e", "t">>}

Paths == {AccountPath, OrderPath}

QueryBody ==
    Dict(<<Item(K_symbol, StrVal(<<"a", " ", "U+00E9">>)),
           Item(K_limit, IntVal(20))>>)

Bodies ==
    {None, Dict(<<>>), StrBody(<<>>), StrBody(<<"a", "\"", "b">>), QueryBody}

Invocation(op, method, path, body, arg, cred) ==
    [op |-> op, method |-> method, path |-> path, body |-> body, arg |-> arg,
     api_key |-> cred.api_key, api_secret |-> cred.api_secret]

\* Direct calls signer.generate_signature(method, path, body).
GenerateSignatureCalls ==
    {Invocation("generate_signature", m, p, b, None, c) :
        m \in Methods, p \in Paths, b \in Bodies, c \in Credentials}

\* Calls send_request(method, path, body, api_key, api_secret).
SendRequestCalls ==
    {Invocation("send_request", m, p, b, None, c) :
        m \in Methods, p \in Paths, b \in Bodies, c \in Credentials}

ENAUSDT == <<"E", "N", "A", "U", "S", "D", "T">>
FullOrder ==
    Dict(<<Item(K_symbol, StrVal(ENAUSDT)), Item(K_volume, IntVal(10)),
           Item(K_side, StrVal(<<"B", "U", "Y">>)),
           Item(K_type, StrVal(<<"L", "I", "M", "I", "T">>)),
           Item(K_price, StrVal(<<"0", ".", "8">>))>>)
\* The same order with its keys in another order, and one more field.
ShuffledOrder ==
    Dict(<<Item(K_price, IntVal(1)), Item(K_order_id, StrVal(<<"7">>)),
           Item(K_type, StrVal(<<"L", "I", "M", "I", "T">>)),
           Item(K_volume, IntVal(14)), Item(K_symbol, StrVal(ENAUSDT)),
           Item(K_side, StrVal(<<"S", "E", "L", "L">>))>>)
PartialOrder ==
    Dict(<<Item(K_symbol, StrVal(ENAUSDT)), Item(K_volume, IntVal(10))>>)
\* A cancel request that names the order by the wire's key, not order_id.
WireKeyOrder ==
    Dict(<<Item(K_symbol, StrVal(ENAUSDT)),
           Item(K_orderId, StrVal(<<"2", "6">>))>>)
OpenParams ==
    Dict(<<Item(K_symbol, StrVal(<<"e", "n", "a">>)),
           Item(K_limit, IntVal(20))>>)
ShuffledParams ==
    Dict(<<Item(K_limit, IntVal(5)), Item(K_side, StrVal(<<"B", "U", "Y">>)),
           Item(K_symbol, StrVal(<<"a", "&", "b">>))>>)
SymbolsParams ==
    Dict(<<Item(K_symbols, StrVal(<<"U", "S", "D", "T", ",", "B", "T", "C">>)),
           Item(K_limit, IntVal(20))>>)
EmptySymbolsParams == Dict(<<Item(K_symbols, StrVal(<<>>))>>)

Orders == {FullOrder, ShuffledOrder, PartialOrder, WireKeyOrder, Dict(<<>>)}
Params ==
    {OpenParams, ShuffledParams, SymbolsParams, EmptySymbolsParams,
     Dict(<<>>)}

ManagerCalls(op, args) ==
    {Invocation(op, <<>>, <<>>, None, a, c) : a \in args, c \in Credentials}

NoResponse == [kind |-> "none", status |-> 0, json |-> "", cause |-> ""]
TransportFailure(cause) ==
    [kind |-> "transport", status |-> 0, json |-> "", cause |-> cause]
HttpResponse(status, json) ==
    [kind |-> "http", status |-> status, json |-> json, cause |-> ""]

\* What the network and the server may answer: the failures requests
\* raises, and a status line with a body that is a JSON document or not.
Statuses == {200, 204, 299, 300, 304, 400, 404, 500, 599}
Responses ==
    {TransportFailure(c) : c \in {"ConnectionError", "Timeout"}}
      \cup {HttpResponse(s, j) : s \in Statuses, j \in {"json", "invalid"}}

\* The workload of the concurrent specification.
ConcurrentSendRequestCalls ==
    {Invocation("send_request", m, OrderPath, QueryBody, None, c) :
        m \in {GET, POST},
        c \in {[api_key |-> <<"k", "1">>, api_secret |-> <<"a", "b", "c">>]}}
ConcurrentGenerateSignatureCalls ==
    {Invocation("generate_signature", POST, OrderPath, QueryBody, None, c) :
        c \in {[api_key |-> <<"k", "1">>, api_secret |-> <<"a", "b", "c">>]}}
ConcurrentResponses == {HttpResponse(200, "json")}

\* ----------------------------------------------------------------- state

VARIABLES
    clock,            \* time.time(), in units of 1/SubMs milliseconds
    pc,               \* where each thread is in its call
    call,             \* the operation each thread invoked, with its arguments
    frame,            \* send_request's method, request_path and body
    signature_data,   \* what generate_signature returned to the thread
    readAt,           \* the clock reading generate_signature took
    sent,             \* the HTTP requests the call has issued
    response,         \* what came back
    outcome           \* how the call ended

vars ==
    <<clock, pc, call, frame, signature_data, readAt,
      sent, response, outcome>>

NoCall == Invocation("none", <<>>, <<>>, None, None,
                     [api_key |-> <<>>, api_secret |-> <<>>])
NoFrame == [method |-> <<>>, request_path |-> <<>>, body |-> None]
NoSignature ==
    [signature |-> HmacSha256Hex(<<>>, <<>>), timestamp |-> <<>>]

ClockStart == StartMs * SubMs

Init ==
    /\ clock = ClockStart
    /\ pc = [t \in Threads |-> "idle"]
    /\ call = [t \in Threads |-> NoCall]
    /\ frame = [t \in Threads |-> NoFrame]
    /\ signature_data = [t \in Threads |-> NoSignature]
    /\ readAt = [t \in Threads |-> -1]
    /\ sent = [t \in Threads |-> <<>>]
    /\ response = [t \in Threads |-> NoResponse]
    /\ outcome = [t \in Threads |-> NoOutcome]

\* An exception raised before send_request's try block, or in a manager
\* method: nothing catches it, and it reaches the caller.
Raise(t, inv, kind, key) ==
    /\ call' = [call EXCEPT ![t] = inv]
    /\ pc' = [pc EXCEPT ![t] = "done"]
    /\ outcome' = [outcome EXCEPT ![t] = [Raised(kind, "") EXCEPT !.key = key]]
    /\ UNCHANGED <<clock, frame, signature_data, readAt,
                   sent, response>>

\* send_request up to the call of generate_signature (lines 83-86).
SendRequest(t, inv, method, request_path, body) ==
    IF UrlEncodeRaises(method, body)
    THEN Raise(t, inv, "TypeError", <<>>)
    ELSE /\ call' = [call EXCEPT ![t] = inv]
         /\ frame' = [frame EXCEPT ![t] =
                [method |-> method,
                 request_path |-> RequestPath(method, request_path, body),
                 body |-> body]]
         /\ pc' = [pc EXCEPT ![t] = "sign"]
         /\ UNCHANGED <<clock, signature_data, readAt,
                        sent, response, outcome>>

\* A caller invokes signer.generate_signature directly.
CallGenerateSignature(t, calls) ==
    /\ pc[t] = "idle"
    /\ \E inv \in calls :
        /\ call' = [call EXCEPT ![t] = inv]
        /\ frame' = [frame EXCEPT ![t] =
               [method |-> inv.method, request_path |-> inv.path,
                body |-> inv.body]]
        /\ pc' = [pc EXCEPT ![t] = "sign"]
    /\ UNCHANGED <<clock, signature_data, readAt, sent,
                   response, outcome>>

CallSendRequest(t, calls) ==
    /\ pc[t] = "idle"
    /\ \E inv \in calls : SendRequest(t, inv, inv.method, inv.path, inv.body)

PlaceOrder(t) ==
    /\ pc[t] = "idle"
    /\ \E inv \in ManagerCalls("place_order", Orders) :
        IF MissingKey(inv.arg, PlaceOrderKeys) # <<>>
        THEN Raise(t, inv, "KeyError", MissingKey(inv.arg, PlaceOrderKeys))
        ELSE SendRequest(t, inv, POST, OrderPath, PlaceOrderBody(inv.arg))

CancelOrder(t) ==
    /\ pc[t] = "idle"
    /\ \E inv \in ManagerCalls("cancel_order", Orders) :
        IF MissingKey(inv.arg, CancelOrderKeys) # <<>>
        THEN Raise(t, inv, "KeyError", MissingKey(inv.arg, CancelOrderKeys))
        ELSE SendRequest(t, inv, POST, CancelPath, CancelOrderBody(inv.arg))

OpenOrders(t) ==
    /\ pc[t] = "idle"
    /\ \E inv \in ManagerCalls("open_orders", Params) :
        IF MissingKey(inv.arg, OpenOrdersKeys) # <<>>
        THEN Raise(t, inv, "KeyError", MissingKey(inv.arg, OpenOrdersKeys))
        ELSE SendRequest(t, inv, GET, OpenOrdersPath, OpenOrdersBody(inv.arg))

Balance(t) ==
    /\ pc[t] = "idle"
    /\ \E inv \in ManagerCalls("balance", {None}) :
        SendRequest(t, inv, GET, AccountPath, BalanceBody)

AccountBalance(t) ==
    /\ pc[t] = "idle"
    /\ \E inv \in ManagerCalls("account_balance", Params) :
        IF MissingKey(inv.arg, AccountBalanceKeys) # <<>>
        THEN Raise(t, inv, "KeyError",
                   MissingKey(inv.arg, AccountBalanceKeys))
        ELSE SendRequest(t, inv, GET, AccountBalancePath,
                         AccountBalanceBody(inv.arg))

\* generate_signature runs: it reads the clock and signs (lines 43-64).  A
\* direct call ends here; send_request goes on to build the request.
Sign(t) ==
    /\ pc[t] = "sign"
    /\ readAt' = [readAt EXCEPT ![t] = clock]
    /\ signature_data' = [signature_data EXCEPT ![t] =
           GenerateSignature(call[t].api_secret, clock, frame[t].method,
                             frame[t].request_path, frame[t].body)]
    /\ IF call[t].op = "generate_signature"
       THEN /\ pc' = [pc EXCEPT ![t] = "done"]
            /\ outcome' = [outcome EXCEPT ![t] = Returned("signature_data")]
       ELSE /\ pc' = [pc EXCEPT ![t] = "dispatch"]
            /\ UNCHANGED outcome
    /\ UNCHANGED <<clock, call, frame, sent, response>>

\* Mutant of SignatureDataOf: the signer's result is kept in one place shared
\* by all calls, so a call finds there what the latest signing left.
LatestSignatureData(t) ==
    signature_data[CHOOSE u \in Threads :
                       \A v \in Threads : readAt[v] <= readAt[u]]

\* The signature_data local of thread t's send_request.
SignatureDataOf(t) == signature_data[t]

\* send_request builds headers and url and calls requests (lines 89-101).
Dispatch(t) ==
    /\ pc[t] = "dispatch"
    /\ sent' = [sent EXCEPT ![t] = Append(@,
           OutboundRequest(frame[t].method, frame[t].request_path,
                           frame[t].body,
                           Headers(call[t].api_key, SignatureDataOf(t))))]
    /\ pc' = [pc EXCEPT ![t] = "await"]
    /\ UNCHANGED <<clock, call, frame, signature_data,
                   readAt, response, outcome>>

\* The blocked call gets its answer and returns or raises (lines 103-108).
Respond(t, responses) ==
    /\ pc[t] = "await"
    /\ \E r \in responses, jsonErrorWrapped \in BOOLEAN :
        /\ response' = [response EXCEPT ![t] = r]
        /\ outcome' = [outcome EXCEPT ![t] =
               SendRequestOutcome(r, jsonErrorWrapped)]
    /\ pc' = [pc EXCEPT ![t] = "done"]
    /\ UNCHANGED <<clock, call, frame, signature_data,
                   readAt, sent>>

\* The caller has its result; the call's locals are gone.
Return(t) ==
    /\ pc[t] = "done"
    /\ pc' = [pc EXCEPT ![t] = "idle"]
    /\ call' = [call EXCEPT ![t] = NoCall]
    /\ frame' = [frame EXCEPT ![t] = NoFrame]
    /\ signature_data' = [signature_data EXCEPT ![t] = NoSignature]
    /\ readAt' = [readAt EXCEPT ![t] = -1]
    /\ sent' = [sent EXCEPT ![t] = <<>>]
    /\ response' = [response EXCEPT ![t] = NoResponse]
    /\ outcome' = [outcome EXCEPT ![t] = NoOutcome]
    /\ UNCHANGED clock

\* Real time passes.
Tick ==
    /\ clock < ClockStart + MaxTicks
    /\ clock' = clock + 1
    /\ UNCHANGED <<pc, call, frame, signature_data, readAt,
                   sent, response, outcome>>

MainThread == 1

\* One caller, every operation, every input and every answer.
Next ==
    \/ PlaceOrder(MainThread)
    \/ CancelOrder(MainThread)
    \/ OpenOrders(MainThread)
    \/ Balance(MainThread)
    \/ AccountBalance(MainThread)
    \/ CallSendRequest(MainThread, SendRequestCalls)
    \/ CallGenerateSignature(MainThread, GenerateSignatureCalls)
    \/ Sign(MainThread)
    \/ Dispatch(MainThread)
    \/ Respond(MainThread, Responses)
    \/ Return(MainThread)
    \/ Tick

Spec == Init /\ [][Next]_vars

\* Every thread calls send_request or generate_signature, in any interleaving.
NextConcurrent ==
    \/ \E t \in Threads :
          CallGenerateSignature(t, ConcurrentGenerateSignatureCalls)
    \/ \E t \in Threads : CallSendRequest(t, ConcurrentSendRequestCalls)
    \/ \E t \in Threads : Sign(t)
    \/ \E t \in Threads : Dispatch(t)
    \/ \E t \in Threads : Respond(t, ConcurrentResponses)
    \/ \E t \in Threads : Return(t)
    \/ Tick

SpecConcurrent == Init /\ [][NextConcurrent]_vars

\* --------------------------------------------------------------- properties

PublicOps ==
    {"send_request", "place_order", "cancel_order", "open_orders", "balance",
     "account_balance"}

\* generate_signature has run in thread t's current call.
Signed(t) == readAt[t] # -1

\* The millisecond a clock reading falls in.
MsOf(now) ==
    CHOOSE m \in 0..now : m * SubMs <= now /\ now < (m + 1) * SubMs

IsEmptyBody(body) ==
    \/ body.kind = "none"
    \/ body.kind = "dict" /\ body.items = <<>>
    \/ body.kind = "str" /\ body.s = <<>>

\* What the claims say follows the path in the signing payload.
ExpectedBodyPart(method, body) ==
    IF Upper(method) = POST /\ ~IsEmptyBody(body)
    THEN (IF body.kind = "dict" THEN JsonDumps(body) ELSE body.s)
    ELSE <<>>

\* The bytes that follow timestamp, method and path in the message thread t
\* signed.
SignedBodyBytes(t) ==
    LET msg == signature_data[t].signature.msg
        prefix == Utf8(signature_data[t].timestamp \o Upper(frame[t].method)
                         \o frame[t].request_path)
    IN  SubSeq(msg, Len(prefix) + 1, Len(msg))

\* C1: every signature generate_signature returns is HMAC-SHA256(secret, P)
\* with P = str(t) ++ uppercase(method) ++ path, t the millisecond read from
\* the clock, followed by the body exactly when uppercase(method) is POST and
\* the body is non-empty (a dict as its JSON text, a str verbatim); the
\* timestamp returned is str(t).
C1_SignatureIsHmacOfPayload ==
    \A t \in Threads :
        Signed(t) =>
            LET ts == Str(MsOf(readAt[t]))
                P == ts \o Upper(frame[t].method) \o frame[t].request_path
                        \o ExpectedBodyPart(frame[t].method, frame[t].body)
            IN  /\ signature_data[t].timestamp = ts
                /\ signature_data[t].signature =
                       HmacSha256Hex(Utf8(call[t].api_secret), Utf8(P))

\* A direct call with a lower-case "post" and a dict body has been signed, at
\* the millisecond where the timestamp gains a digit.
C1_Witness ==
    \E t \in Threads :
        /\ Signed(t)
        /\ call[t].op = "generate_signature"
        /\ frame[t].method = <<"p", "o", "s", "t">>
        /\ frame[t].body = QueryBody
        /\ Len(signature_data[t].timestamp) = Len(Str(StartMs)) + 1

\* C2: a call send_request("GET", path, body) with a non-empty body signs
\* the message timestamp ++ "GET" ++ path ++ "?" ++ urlencode(body), never
\* the bare path, and requests the URL BASE_URL ++ path ++ "?" ++ query.
C2_QuerySignedAndRequested ==
    \A t \in Threads :
        (/\ call[t].op = "send_request"
         /\ call[t].method = GET
         /\ ~IsEmptyBody(call[t].body)
         /\ Signed(t)) =>
            LET p == call[t].path \o <<"?">> \o UrlEncode(call[t].body)
                ts == signature_data[t].timestamp
            IN  /\ signature_data[t].signature.msg = Utf8(ts \o GET \o p)
                /\ signature_data[t].signature.msg
                       # Utf8(ts \o GET \o call[t].path)
                /\ \A i \in 1..Len(sent[t]) :
                       sent[t][i].url = BASE_URL \o p

\* A GET with a query whose characters need quoting has been sent.
C2_Witness ==
    \E t \in Threads :
        /\ call[t].op = "send_request"
        /\ call[t].method = GET
        /\ call[t].body = QueryBody
        /\ Len(sent[t]) = 1

\* C3: whenever a body is part of the signing payload of a send_request
\* call, the bytes signed for it are the bytes sent as the HTTP request body.
C3_SignedBodyIsWireBody ==
    \A t \in Threads :
        \A i \in 1..Len(sent[t]) :
            (call[t].op = "send_request" /\ SignedBodyBytes(t) # <<>>) =>
                /\ sent[t][i].data.present
                /\ sent[t][i].data.bytes = SignedBodyBytes(t)

\* C4: a send_request that met a transport failure or a status outside
\* 200-299 raised FameexAPIException with the cause, and one that returned a
\* value had a 2xx response.
C4_Non2xxRaises ==
    \A t \in Threads :
        (pc[t] = "done" /\ response[t].kind # "none") =>
            /\ response[t].kind = "transport" =>
                   /\ outcome[t].kind = "FameexAPIException"
                   /\ outcome[t].cause = response[t].cause
            /\ (/\ response[t].kind = "http"
                /\ ~(200 <= response[t].status /\ response[t].status <= 299))
                   => outcome[t].kind = "FameexAPIException"
            /\ outcome[t].kind = "return" =>
                   /\ response[t].kind = "http"
                   /\ 200 <= response[t].status
                   /\ response[t].status <= 299

\* C5: every call of a public operation ends by returning the decoded JSON
\* response or by raising FameexAPIException, and in no other way.
C5_OnlyFameexAPIException ==
    \A t \in Threads :
        (pc[t] = "done" /\ call[t].op \in PublicOps) =>
            \/ outcome[t].kind = "return" /\ outcome[t].value = response[t].json
            \/ outcome[t].kind = "FameexAPIException"

\* C6: every call of a public operation has issued exactly one HTTP request
\* when it ends, and never more than one at any time.
C6_ExactlyOneRequest ==
    \A t \in Threads :
        /\ Len(sent[t]) <= 1
        /\ (pc[t] = "done" /\ call[t].op \in PublicOps) => Len(sent[t]) = 1

\* C7: under any interleaving, every request a call sends carries in X-CH-TS
\* the timestamp of the clock reading this call took, and in X-CH-SIGN the
\* signature of that timestamp with this call's method, path and body under
\* this call's secret.
C7_OwnTimestampAndSignature ==
    \A t \in Threads :
        \A i \in 1..Len(sent[t]) :
            LET ts == Str(MsOf(readAt[t]))
            IN  /\ Signed(t)
                /\ sent[t][i].headers["X-CH-TS"] = ts
                /\ sent[t][i].headers["X-CH-SIGN"] =
                       HmacSha256Hex(Utf8(call[t].api_secret),
                           Utf8(ts \o Upper(frame[t].method)
                                  \o frame[t].request_path
                                  \o ExpectedBodyPart(frame[t].method,
                                                      frame[t].body)))
                /\ sent[t][i].headers["X-CH-APIKEY"] = call[t].api_key

\* Two calls are in flight at once, with different methods and different
\* timestamps.
C7_Witness ==
    \E t, u \in Threads :
        /\ t # u
        /\ pc[t] = "await" /\ pc[u] = "await"
        /\ frame[t].method # frame[u].method
        /\ signature_data[t].timestamp # signature_data[u].timestamp

SameSignerInputs(t, u) ==
    /\ call[t].api_secret = call[u].api_secret
    /\ frame[t].method = frame[u].method
    /\ frame[t].request_path = frame[u].request_path
    /\ frame[t].body = frame[u].body

\* C8 as claimed: two calls of generate_signature with the same secret,
\* method, path and body that read the clock at different real times return
\* different signatures.
C8_DifferentTimesDifferentSignatures ==
    \A t, u \in Threads :
        (/\ Signed(t) /\ Signed(u)
         /\ SameSignerInputs(t, u)
         /\ readAt[t] # readAt[u]) =>
            signature_data[t].signature # signature_data[u].signature

\* C8 as amended: two calls of generate_signature with the same secret,
\* method, path and body whose clock readings fall in different
\* milliseconds return different signatures.
C8_DifferentMsDifferentSignatures ==
    \A t, u \in Threads :
        (/\ Signed(t) /\ Signed(u)
         /\ SameSignerInputs(t, u)
         /\ MsOf(readAt[t]) # MsOf(readAt[u])) =>
            signature_data[t].signature # signature_data[u].signature

\* Two calls with the same inputs have signed in different milliseconds, one
\* of them with a longer timestamp.
C8_Witness ==
    \E t, u \in Threads :
        /\ Signed(t) /\ Signed(u)
        /\ SameSignerInputs(t, u)
        /\ MsOf(readAt[t]) # MsOf(readAt[u])
        /\ Len(signature_data[t].timestamp) # Len(signature_data[u].timestamp)

\* The value the caller's dict gives for key k is v.
Gives(arg, k, v) ==
    \E j \in 1..Len(arg.items) : arg.items[j].k = k /\ arg.items[j].v = v

\* body holds exactly the keys `names`, in that order, each with the value
\* the caller's dict gives for the key of `from` at the same place.
BuiltFrom(body, names, from, arg) ==
    /\ body.kind = "dict"
    /\ Len(body.items) = Len(names)
    /\ \A i \in 1..Len(names) :
           /\ body.items[i].k = names[i]
           /\ Gives(arg, from[i], body.items[i].v)

\* Thread t's call reached send_request with this method and body, signs
\* and requests this path, and sends the body as JSON exactly for a POST.
Delegates(t, method, path, isPost) ==
    /\ frame[t].method = method
    /\ frame[t].request_path = path
    /\ Signed(t) =>
           signature_data[t].signature.msg =
               Utf8(signature_data[t].timestamp \o method \o path
                      \o (IF isPost THEN JsonDumps(frame[t].body) ELSE <<>>))
    /\ \A i \in 1..Len(sent[t]) :
           /\ sent[t][i].verb = method
           /\ sent[t][i].url = BASE_URL \o path
           /\ sent[t][i].data =
                  IF isPost
                  THEN [present |-> TRUE,
                        bytes |-> Utf8(JsonDumps(frame[t].body))]
                  ELSE [present |-> FALSE, bytes |-> <<>>]

\* C9: each endpoint operation that reaches send_request does so with its
\* fixed method and path and a body of exactly the named fields in the
\* stated order, whatever else the input holds: place_order POST
\* /sapi/v1/order {symbol, volume, side, type, price}; cancel_order POST
\* /sapi/v1/cancel {symbol, orderId = order_id}; open_orders GET
\* /sapi/v1/openOrders?symbol=..&limit=..; account_balance GET
\* /sapi/v1/account/balance?symbols=..; balance GET /sapi/v1/account with
\* an empty body and the bare path.
C9_EndpointsDelegate ==
    \A t \in Threads :
        (pc[t] \in {"sign", "dispatch", "await"}
           \/ (pc[t] = "done" /\ outcome[t].kind # "KeyError")) =>
            LET arg == call[t].arg
                b == frame[t].body
                q(i) == QuotePlus(StrOf(b.items[i].v))
            IN
            /\ call[t].op = "place_order" =>
                   /\ BuiltFrom(b, PlaceOrderKeys, PlaceOrderKeys, arg)
                   /\ Delegates(t, POST, OrderPath, TRUE)
            /\ call[t].op = "cancel_order" =>
                   /\ BuiltFrom(b, <<K_symbol, K_orderId>>,
                                <<K_symbol, K_order_id>>, arg)
                   /\ Delegates(t, POST, CancelPath, TRUE)
            /\ call[t].op = "open_orders" =>
                   /\ BuiltFrom(b, <<K_symbol, K_limit>>,
                                <<K_symbol, K_limit>>, arg)
                   /\ Delegates(t, GET,
                          OpenOrdersPath \o <<"?">> \o K_symbol \o <<"=">>
                            \o q(1) \o <<"&">> \o K_limit \o <<"=">> \o q(2),
                          FALSE)
            /\ call[t].op = "account_balance" =>
                   /\ BuiltFrom(b, <<K_symbols>>, <<K_symbols>>, arg)
                   /\ Delegates(t, GET,
                          AccountBalancePath \o <<"?">> \o K_symbols
                            \o <<"=">> \o q(1),
                          FALSE)
            /\ call[t].op = "balance" =>
                   /\ b = Dict(<<>>)
                   /\ Delegates(t, GET, AccountPath, FALSE)

\* An order given with its keys in another order and an extra field has
\* been sent.
C9_Witness ==
    \E t \in Threads :
        /\ call[t].op = "place_order"
        /\ call[t].arg = ShuffledOrder
        /\ Len(sent[t]) = 1

\* C10: for a method string in any letter case, the verb issued is the
\* uppercased method that was signed, a body is signed exactly when a POST
\* carrying it is issued, and a GET-class method with a non-empty body has
\* its query string in the signed and requested path.
C10_SigningAndDispatchAgree ==
    \A t \in Threads :
        \A i \in 1..Len(sent[t]) :
            call[t].op = "send_request" =>
                /\ sent[t][i].verb = Upper(call[t].method)
                /\ SignedBodyBytes(t) # <<>> <=>
                       (sent[t][i].verb = POST /\ sent[t][i].data.present
                          /\ ~IsEmptyBody(call[t].body))
                /\ (Upper(call[t].method) = GET /\ ~IsEmptyBody(call[t].body))
                       => frame[t].request_path =
                              call[t].path \o <<"?">>
                                \o UrlEncode(call[t].body)
====
